---- MODULE Spec2Model ----
(***************************************************************************)
(* A model of src/utils.tsx of react-mathlive: the property classifier     *)
(* (filterConfig), the option updater (useUpdateOptions), the event bridge *)
(* (useEventRegistration), the synthetic-input dispatcher                  *)
(* (useEventDispatchRef) and the detached-node manager (useAddChild).      *)
(* Each hook is a state machine of its own (SpecOptions, SpecBridge,       *)
(* SpecDispatch, SpecChild and SpecChildEnv); the classifier is a pure     *)
(* function applied to a property bag (SpecClassify).                      *)
(*                                                                         *)
(* A JavaScript object is a sequence of entries [k |-> key, v |-> value]   *)
(* with pairwise different keys, in the object's own key order.  A value   *)
(* is a record [t |-> type, v |-> name].                                   *)
(***************************************************************************)
EXTENDS Integers, Sequences, FiniteSets, TLC

VARIABLES
  \* ---- the classifier applied to one property bag
  bag,          \* the PropertyBag handed to the component
  cStage,       \* "input", "filtered" (filterConfig returned), "bridged" (fns built)
  configOut,    \* filterConfig's config
  passOut,      \* filterConfig's passProps
  fnsOut,       \* the fns array of useEventRegistration for the same bag
  \* ---- useUpdateOptions
  uPhase,       \* "init", "mounted", "gone"
  config,       \* the config argument of the latest render: [id, val]
  configRef,    \* configRef.current: [id, val]
  uRef,         \* ref.current seen by the layout effect
  setCalls,     \* calls of setOptions so far: <<[node, cfg]>>
  thrown,       \* errors raised so far
  runs,         \* runs of the layout effect so far: <<[cfg, node]>>
  uRenders,     \* renders so far
  \* ---- useEventRegistration
  bPhase,       \* "init", "mounted", "gone"
  props,        \* the props argument of the latest render: [id, bag]
  bRef,         \* ref.current
  listeners,    \* the event listener list of every node
  cleanup,      \* the cleanup the last run of the effect returned
  pending,      \* the passive effect work React has scheduled: "none", "effect", "unmount"
  calls,        \* the callback invocations of the native event dispatched last
  lastEvent,    \* the native event dispatched last, and the phase it came in
  fired,        \* native events dispatched so far
  bRenders,     \* renders so far
  bridgeRuns,   \* the last two runs of the effect, the latest last: <<[props, node]>>
  bThrown,      \* errors the effect and its cleanups raised so far
  lastCleanup,  \* the cleanup that ran for the unmount, and how often it has run: [c, times]
  \* ---- useEventDispatchRef
  dRef,         \* ref.current: the hidden input element, or NoElement
  dOps,         \* what the last call of dispatchEvent did to the element, in order
  dError,       \* the error the last call of dispatchEvent raised, or "none"
  dLast,        \* the arguments of the last call of dispatchEvent
  dCount,       \* calls of dispatchEvent so far
  \* ---- useAddChild, in every component instance
  aPhase,       \* "init", "mounted", "gone"
  container,    \* the node useMemo holds
  returned,     \* the node the latest render returned
  aRenders,     \* renders so far
  body,         \* the children of document.body, in order
  created,      \* nodes document.createElement has made so far
  aThrown       \* errors the layout effects and their cleanups raised so far

cVars == <<bag, cStage, configOut, passOut, fnsOut>>
uVars == <<uPhase, config, configRef, uRef, setCalls, thrown, runs, uRenders>>
bVars == <<bPhase, props, bRef, listeners, cleanup, pending, calls,
           lastEvent, fired, bRenders, bridgeRuns, bThrown, lastCleanup>>
dVars == <<dRef, dOps, dError, dLast, dCount>>
aVars == <<aPhase, container, returned, aRenders, body, created, aThrown>>
vars == <<cVars, uVars, bVars, dVars, aVars>>

----------------------------------------------------------------------------
(* Bounds *)

MaxBagLen == 3     \* entries of a property bag handed to the classifier
MaxRenders == 3    \* renders of one component instance (the mount included)
MaxEvents == 2     \* native events dispatched on the nodes
MaxDispatch == 2   \* calls of the dispatch function of useEventDispatchRef

----------------------------------------------------------------------------
(* Values and objects *)

Str(s) == [t |-> "string", v |-> s]
Fn(f) == [t |-> "function", v |-> f]
Elem(e) == [t |-> "element", v |-> e]
Arr(a) == [t |-> "array", v |-> a]
Undefined == [t |-> "undefined", v |-> "undefined"]

Entry(k, v) == [k |-> k, v |-> v]

Keys(obj) == {obj[i].k : i \in DOMAIN obj}

Pairs(obj) == {obj[i] : i \in DOMAIN obj}

HasKey(obj, k) == k \in Keys(obj)

Get(obj, k) == IF HasKey(obj, k)
               THEN obj[CHOOSE i \in DOMAIN obj : obj[i].k = k].v
               ELSE Undefined

\* obj[k] = v: an existing key keeps its place, a new key goes last
Put(obj, k, v) ==
  IF HasKey(obj, k)
  THEN [i \in DOMAIN obj |-> IF obj[i].k = k THEN Entry(k, v) ELSE obj[i]]
  ELSE Append(obj, Entry(k, v))

----------------------------------------------------------------------------
(* The static tables *)

OPTIONS ==
  { "createHTML", "customVirtualKeyboardLayers", "customVirtualKeyboards",
    "defaultMode", "fontsDirectory", "horizontalSpacingScale",
    "ignoreSpacebarInMathMode", "inlineShortcutTimeout", "inlineShortcuts",
    "keybindings", "keypressSound", "keypressVibration", "letterShapeStyle",
    "locale", "macros", "namespace", "onBlur", "onCommit",
    "onContentDidChange", "onContentWillChange", "onError", "onFocus",
    "onKeystroke", "onModeChange", "onMoveOutOf", "onReadAloudStatus",
    "onSelectionDidChange", "onSelectionWillChange", "onTabOutOf",
    "onUndoStateDidChange", "onUndoStateWillChange",
    "onVirtualKeyboardToggle", "overrideDefaultInlineShortcuts",
    "plonkSound", "readAloudHook", "readOnly",
    "removeExtraneousParentheses", "scriptDepth", "smartFence", "smartMode",
    "smartSuperscript", "speakHook", "speechEngine", "speechEngineRate",
    "speechEngineVoice", "strings", "substituteTextArea",
    "textToSpeechMarkup", "textToSpeechRules", "textToSpeechRulesOptions",
    "virtualKeyboardLayout", "virtualKeyboardMode", "virtualKeyboardTheme",
    "virtualKeyboardToggleGlyph", "virtualKeyboards" }

FUNCTION_MAPPING ==
  [ onChange |-> "input",
    onInput |-> "input",
    onMathFieldFocus |-> "focus",
    onMathFieldBlur |-> "blur",
    onCommit |-> "change",
    onError |-> "math-error",
    onKeystroke |-> "keystroke",
    onModeChange |-> "mode-change",
    onMoveOutOf |-> "focus-out",
    onReadAloudStatus |-> "read-aloud-status",
    onSelectionWillChange |-> "selection-will-change",
    onUndoStateDidChange |-> "undo-state-did-change",
    onUndoStateWillChange |-> "undo-state-will-change",
    onVirtualKeyboardToggle |-> "virtual-keyboard-toggle" ]

FUNCTION_PROPS == DOMAIN FUNCTION_MAPPING

MAPPING == [className |-> "class", htmlFor |-> "for"]

\* MAPPING is an object literal: MAPPING[k] of a name k it inherits from
\* Object.prototype is that member, which is truthy, and used as a property
\* key it is the member's string form.
InheritedMember ==
  [constructor |-> "function Object() { [native code] }"]

\* MAPPING[_key] || _key
Renamed(k) ==
  IF k \in DOMAIN MAPPING THEN MAPPING[k]
  ELSE IF k \in DOMAIN InheritedMember THEN InheritedMember[k]
  ELSE k

----------------------------------------------------------------------------
(* filterConfig *)

\* the items of the arrays a property may hold
ArrayItems ==
  [ icons |-> <<Elem("svg"), Elem("span")>>,
    mixed |-> <<Elem("svg"), Str("x")>> ]

IsValidElement(v) == v.t = "element"

IsElementArray(v) ==
  /\ v.t = "array"
  /\ \A i \in DOMAIN ArrayItems[v.v] : IsValidElement(ArrayItems[v.v][i])

\* renderToString of an element, or of an array of elements: its markup
Markup ==
  [ svg |-> "<svg></svg>",
    icons |-> "<svg></svg><span></span>" ]

renderToString(v) == Str(Markup[v.v])

\* filterStep with the two tests in the other order: a name in both tables
\* is taken for an option
filterStep_OptionsFirst(acc, e) ==
  LET key == Renamed(e.k)
  IN  IF key \in OPTIONS
      THEN [acc EXCEPT !.config = Put(acc.config, key, e.v)]
      ELSE IF key \in FUNCTION_PROPS
      THEN acc
      ELSE [acc EXCEPT !.passProps = Put(acc.passProps, key, e.v)]

\* filterStep whose handler branch falls through to the passthrough branch
filterStep_HandlersPassed(acc, e) ==
  LET key == Renamed(e.k)
  IN  IF key \in OPTIONS /\ key \notin FUNCTION_PROPS
      THEN [acc EXCEPT !.config = Put(acc.config, key, e.v)]
      ELSE [acc EXCEPT !.passProps = Put(acc.passProps, key, e.v)]

\* filterStep that writes passProps[_key], the key before renaming
filterStep_OriginalKey(acc, e) ==
  LET key == Renamed(e.k)
  IN  IF key \in FUNCTION_PROPS
      THEN acc
      ELSE IF key \in OPTIONS
      THEN [acc EXCEPT !.config = Put(acc.config, key, e.v)]
      ELSE [acc EXCEPT !.passProps = Put(acc.passProps, e.k, e.v)]

\* one iteration of the loop of filterConfig, on the entry e of props
filterStep(acc, e) ==
  LET key == Renamed(e.k)
      value == IF IsValidElement(e.v) \/ IsElementArray(e.v)
               THEN renderToString(e.v)
               ELSE e.v
  IN  IF key \in FUNCTION_PROPS
      THEN acc
      ELSE IF key \in OPTIONS
      THEN [acc EXCEPT !.config = Put(acc.config, key, value)]
      ELSE [acc EXCEPT !.passProps = Put(acc.passProps, key, e.v)]

RECURSIVE filterLoop(_, _, _)
filterLoop(acc, obj, i) ==
  IF i > Len(obj) THEN acc
  ELSE filterLoop(filterStep(acc, obj[i]), obj, i + 1)

filterConfig(p) == filterLoop([config |-> <<>>, passProps |-> <<>>], p, 1)

----------------------------------------------------------------------------
(* The fns array of useEventRegistration *)

IsHandlerEntry(e) == e.v.t = "function" /\ Renamed(e.k) \in FUNCTION_PROPS

\* BuildFns that registers under the prop name, not under the event name
BuildFns_PropName(p, run) ==
  LET hs == SelectSeq(p.bag, IsHandlerEntry)
  IN  [i \in DOMAIN hs |->
         [key |-> Renamed(hs[i].k),
          fn |-> [run |-> run, prop |-> hs[i].k, props |-> p]]]

\* One forwarding listener per function-valued handler prop of p, in key
\* order. fn is the closure (...args) => { props[key](...args) } of run `run`
\* of the effect: it is identified by the run and the key, and it closes over
\* the props object p.
BuildFns(p, run) ==
  LET hs == SelectSeq(p.bag, IsHandlerEntry)
  IN  [i \in DOMAIN hs |->
         [key |-> FUNCTION_MAPPING[Renamed(hs[i].k)],
          fn |-> [run |-> run, prop |-> hs[i].k, props |-> p]]]

----------------------------------------------------------------------------
(* The states the hooks rest in while another part of the module runs *)

NoNode == "null"
NoProps == [id |-> 0, bag |-> <<>>]
NoConfig == [id |-> 0, val |-> <<>>]
NoCleanup == [node |-> NoNode, fns |-> <<>>]
NoEvent == [node |-> NoNode, type |-> "", arg |-> "", phase |-> "init"]
Nodes == {"n1", "n2"}
NoElement == [own |-> "null", proto |-> "null"]
NoDispatch == [type |-> "", detail |-> [value |-> "", extra |-> ""], el |-> NoElement]
Instances == {"a", "b"}
NoChild == [id |-> 0, tag |-> ""]

CIdle ==
  /\ bag = <<>>
  /\ cStage = "input"
  /\ configOut = <<>>
  /\ passOut = <<>>
  /\ fnsOut = <<>>

UIdle ==
  /\ uPhase = "init"
  /\ config = NoConfig
  /\ configRef = NoConfig
  /\ uRef = NoNode
  /\ setCalls = <<>>
  /\ thrown = <<>>
  /\ runs = <<>>
  /\ uRenders = 0

BIdle ==
  /\ bPhase = "init"
  /\ props = NoProps
  /\ bRef = NoNode
  /\ listeners = [n \in Nodes |-> <<>>]
  /\ cleanup = NoCleanup
  /\ pending = "none"
  /\ calls = <<>>
  /\ lastEvent = NoEvent
  /\ fired = 0
  /\ bRenders = 0
  /\ bridgeRuns = <<>>
  /\ bThrown = <<>>
  /\ lastCleanup = [c |-> NoCleanup, times |-> 0]

DIdle ==
  /\ dRef = NoElement
  /\ dOps = <<>>
  /\ dError = "none"
  /\ dLast = NoDispatch
  /\ dCount = 0

AIdle ==
  /\ aPhase = [i \in Instances |-> "init"]
  /\ container = [i \in Instances |-> NoChild]
  /\ returned = [i \in Instances |-> NoChild]
  /\ aRenders = [i \in Instances |-> 0]
  /\ body = <<>>
  /\ created = 0
  /\ aThrown = <<>>

----------------------------------------------------------------------------
(* SpecClassify: the classifier and the handler set of one property bag *)

\* the properties a bag is drawn from
BagEntries ==
  { Entry("value", Str("x^2")),
    Entry("className", Str("foo")),
    Entry("class", Str("bar")),
    Entry("onCommit", Fn("fn")),
    Entry("onCommit", Undefined),
    Entry("onChange", Fn("fn")),
    Entry("onInput", Fn("fn2")),
    Entry("onError", Fn("fn2")),
    Entry("onFocus", Fn("fn")),
    Entry("locale", Str("en")),
    Entry("virtualKeyboardToggleGlyph", Elem("svg")),
    Entry("virtualKeyboardToggleGlyph", Arr("icons")),
    Entry("virtualKeyboardToggleGlyph", Arr("mixed")),
    Entry("constructor", Str("c")) }

DistinctKeys(s) == \A i, j \in DOMAIN s : s[i].k = s[j].k => i = j

Bags ==
  UNION { {s \in [1..n -> BagEntries] : DistinctKeys(s)} : n \in 0..MaxBagLen }

InitClassify ==
  /\ bag \in Bags
  /\ cStage = "input"
  /\ configOut = <<>>
  /\ passOut = <<>>
  /\ fnsOut = <<>>
  /\ UIdle
  /\ BIdle
  /\ DIdle
  /\ AIdle

\* const [config, passProps] = filterConfig(props)
Classify ==
  /\ cStage = "input"
  /\ configOut' = filterConfig(bag).config
  /\ passOut' = filterConfig(bag).passProps
  /\ cStage' = "filtered"
  /\ UNCHANGED <<bag, fnsOut, uVars, bVars, dVars, aVars>>

\* the fns the event bridge builds from the same props
CollectHandlers ==
  /\ cStage = "filtered"
  /\ fnsOut' = BuildFns([id |-> 1, bag |-> bag], 1)
  /\ cStage' = "bridged"
  /\ UNCHANGED <<bag, configOut, passOut, uVars, bVars, dVars, aVars>>

NextClassify == Classify \/ CollectHandlers

SpecClassify == InitClassify /\ [][NextClassify]_vars

----------------------------------------------------------------------------
(* Claims about the classifier (SpecClassify) *)

RenamedKeys(obj) == {Renamed(k) : k \in Keys(obj)}

\* the keys of the handler set: the props the event bridge built a listener for
HandlerKeys == {Renamed(fnsOut[i].fn.prop) : i \in DOMAIN fnsOut}

\* the keys filterConfig leaves to the event bridge
HandlerNamedKeys == RenamedKeys(bag) \cap FUNCTION_PROPS

\* the callback a forwarding listener invokes: props[key]
Callback(fn) == Get(fn.props.bag, fn.prop)

\* the last entry of obj whose renamed key is k
LastRenamed(obj, k) ==
  obj[CHOOSE i \in DOMAIN obj :
        /\ Renamed(obj[i].k) = k
        /\ \A j \in DOMAIN obj : Renamed(obj[j].k) = k => j <= i]

\* C6 as stated: the keys of config, of passProps and of the handler set are
\* pairwise disjoint and their union is the set of the bag's renamed keys.
C6_PartitionAsStated ==
  cStage = "bridged" =>
    /\ Keys(configOut) \cup Keys(passOut) \cup HandlerKeys = RenamedKeys(bag)
    /\ Keys(configOut) \cap Keys(passOut) = {}
    /\ Keys(configOut) \cap HandlerKeys = {}
    /\ Keys(passOut) \cap HandlerKeys = {}

\* C6 amended: the keys of config, the keys of passProps and the bag's renamed
\* keys that are handler names (function-valued or not) are pairwise disjoint
\* and their union is the set of the bag's renamed keys; the handler set
\* holds those of the handler-named keys whose value is a function.
C6_Partition ==
  cStage = "bridged" =>
    /\ Keys(configOut) \cup Keys(passOut) \cup HandlerNamedKeys = RenamedKeys(bag)
    /\ Keys(configOut) \cap Keys(passOut) = {}
    /\ Keys(configOut) \cap HandlerNamedKeys = {}
    /\ Keys(passOut) \cap HandlerNamedKeys = {}
    /\ HandlerKeys =
         {Renamed(bag[i].k) : i \in {j \in DOMAIN bag : IsHandlerEntry(bag[j])}}
    /\ HandlerKeys \subseteq HandlerNamedKeys

\* a bag with an option, a passthrough prop and a handler name that holds no
\* function has been classified: the handler set is empty
C6_Witness ==
  /\ cStage = "bridged"
  /\ configOut # <<>>
  /\ passOut # <<>>
  /\ HandlerKeys = {}
  /\ HandlerNamedKeys # {}

\* C7: every key of the config filterConfig returns is a recognized option
\* and is no handler name.
C7_ConfigKeysAreOptions ==
  cStage # "input" =>
    /\ Keys(configOut) \subseteq OPTIONS
    /\ Keys(configOut) \cap FUNCTION_PROPS = {}

\* a bag with a name of both tables and with an option has been classified
C7_Witness ==
  /\ cStage # "input"
  /\ RenamedKeys(bag) \cap OPTIONS \cap FUNCTION_PROPS # {}
  /\ configOut # <<>>

\* C8 as stated: a property that is neither a handler nor an option is in
\* passProps under its original key.
C8_OriginalKeyAsStated ==
  cStage # "input" =>
    \A i \in DOMAIN bag :
      Renamed(bag[i].k) \notin FUNCTION_PROPS \cup OPTIONS =>
        /\ HasKey(passOut, bag[i].k)
        /\ Get(passOut, bag[i].k) = bag[i].v

\* C8 amended: a property that is neither a handler nor an option is in
\* passProps under its renamed key, with the value of the last property of
\* the bag that has this renamed key; passProps holds nothing else.
C8_RenamedKey ==
  cStage # "input" =>
    /\ \A i \in DOMAIN bag :
         Renamed(bag[i].k) \notin FUNCTION_PROPS \cup OPTIONS =>
           /\ HasKey(passOut, Renamed(bag[i].k))
           /\ Get(passOut, Renamed(bag[i].k)) =
                LastRenamed(bag, Renamed(bag[i].k)).v
    /\ \A k \in Keys(passOut) :
         k \in RenamedKeys(bag) \ (FUNCTION_PROPS \cup OPTIONS)

\* a bag with className has been classified: it is in passProps as class
C8_Witness ==
  /\ cStage # "input"
  /\ HasKey(bag, "className")
  /\ ~HasKey(bag, "class")
  /\ HasKey(passOut, "class")
  /\ ~HasKey(passOut, "className")

Scenario ==
  << Entry("value", Str("x^2")),
     Entry("onCommit", Fn("fn")),
     Entry("className", Str("foo")) >>

\* C9: the bag { value: "x^2", onCommit: fn, className: "foo" } gives an empty
\* config, the passProps { value: "x^2", class: "foo" } and one listener, for
\* the event change, that forwards to fn.
C9_Scenario ==
  (bag = Scenario /\ cStage = "bridged") =>
    /\ configOut = <<>>
    /\ passOut = <<Entry("value", Str("x^2")), Entry("class", Str("foo"))>>
    /\ Len(fnsOut) = 1
    /\ fnsOut[1].key = "change"
    /\ Callback(fnsOut[1].fn) = Fn("fn")

\* the scenario's bag has been classified and its listeners built
C9_Witness ==
  /\ bag = Scenario
  /\ cStage = "bridged"
  /\ Len(fnsOut) = 1

----------------------------------------------------------------------------
(* SpecOptions: useUpdateOptions over the life of one component instance *)

Bool(b) == [t |-> "boolean", v |-> b]

\* the values of the config argument; the second and the third hold the same
\* options in a different key order
ConfigValues ==
  { <<>>,
    <<Entry("locale", Str("en")), Entry("readOnly", Bool("true"))>>,
    <<Entry("readOnly", Bool("true")), Entry("locale", Str("en"))>>,
    <<Entry("locale", Str("fr"))>> }

\* lodash isEqual of two flat objects: the same keys with the same values,
\* whatever the key order and whatever the objects' identities
isEqual(a, b) == Pairs(a) = Pairs(b)

\* ref.current?.setOptions(config)
setOptions(node, cfg, log) ==
  IF node = NoNode THEN log ELSE Append(log, [node |-> node, cfg |-> cfg])

\* the layout effect without the isEqual test
UpdateOptions_Unconditional(cur, cfg, node, log, errs) ==
  [configRef |-> cfg, setCalls |-> setOptions(node, cfg, log), thrown |-> errs]

\* the layout effect pushing configRef.current, the stored configuration
UpdateOptions_StalePush(cur, cfg, node, log, errs) ==
  IF ~isEqual(cur.val, cfg.val)
  THEN [configRef |-> cfg, setCalls |-> setOptions(node, cur, log), thrown |-> errs]
  ELSE [configRef |-> cur, setCalls |-> log, thrown |-> errs]

\* the layout effect with ref.current.setOptions(config), no optional chaining
UpdateOptions_NoNullCheck(cur, cfg, node, log, errs) ==
  IF ~isEqual(cur.val, cfg.val)
  THEN IF node = NoNode
       THEN [configRef |-> cur, setCalls |-> log,
             thrown |-> Append(errs, "TypeError")]
       ELSE [configRef |-> cfg, setCalls |-> setOptions(node, cfg, log),
             thrown |-> errs]
  ELSE [configRef |-> cur, setCalls |-> log, thrown |-> errs]

\* the body of the layout effect: cur is configRef.current, cfg the config of
\* this render, node ref.current
UpdateOptions(cur, cfg, node, log, errs) ==
  IF ~isEqual(cur.val, cfg.val)
  THEN [configRef |-> cfg, setCalls |-> setOptions(node, cfg, log), thrown |-> errs]
  ELSE [configRef |-> cur, setCalls |-> log, thrown |-> errs]

\* one run of the layout effect, and its record in runs
RunLayoutEffect(cur, cfg, node) ==
  LET r == UpdateOptions(cur, cfg, node, setCalls, thrown)
  IN  /\ configRef' = r.configRef
      /\ setCalls' = r.setCalls
      /\ thrown' = r.thrown
      /\ runs' = Append(runs, [cfg |-> cfg, node |-> node, prev |-> cur])

InitOptions ==
  /\ UIdle
  /\ CIdle
  /\ BIdle
  /\ DIdle
  /\ AIdle

\* the first render and its commit: useRef(config) stores the first config,
\* the ref is attached, the layout effect runs
UMount(val, node) ==
  /\ uPhase = "init"
  /\ uPhase' = "mounted"
  /\ uRenders' = 1
  /\ config' = [id |-> 1, val |-> val]
  /\ uRef' = node
  /\ RunLayoutEffect(config', config', node)
  /\ UNCHANGED <<cVars, bVars, dVars, aVars>>

\* a later render with a new config object, and its commit: the dependency
\* config has changed, the layout effect runs again
URenderNewConfig(val, node) ==
  /\ uPhase = "mounted"
  /\ uRenders < MaxRenders
  /\ uRenders' = uRenders + 1
  /\ config' = [id |-> uRenders + 1, val |-> val]
  /\ uRef' = node
  /\ RunLayoutEffect(configRef, config', node)
  /\ UNCHANGED <<uPhase, cVars, bVars, dVars, aVars>>

\* a later render with the same config object: no dependency has changed,
\* the layout effect does not run
URenderSameConfig(node) ==
  /\ uPhase = "mounted"
  /\ uRenders < MaxRenders
  /\ uRenders' = uRenders + 1
  /\ uRef' = node
  /\ UNCHANGED <<uPhase, config, configRef, setCalls, thrown, runs, cVars, bVars, dVars, aVars>>

\* the unmount: the ref is detached; the layout effect has no cleanup
UUnmount ==
  /\ uPhase = "mounted"
  /\ uPhase' = "gone"
  /\ uRef' = NoNode
  /\ UNCHANGED <<config, configRef, setCalls, thrown, runs, uRenders, cVars, bVars, dVars, aVars>>

Handles == Nodes \cup {NoNode}

NextOptions ==
  \/ \E val \in ConfigValues, node \in Handles : UMount(val, node)
  \/ \E val \in ConfigValues, node \in Handles : URenderNewConfig(val, node)
  \/ \E node \in Handles : URenderSameConfig(node)
  \/ UUnmount

SpecOptions == InitOptions /\ [][NextOptions]_vars

----------------------------------------------------------------------------
(* Claims about the option updater (SpecOptions) *)

LastRun == runs[Len(runs)]

\* C1: a run of the layout effect with a config structurally equal to the
\* stored one calls no setOptions and leaves configRef.current as it is; of
\* two structurally equal configs applied in sequence at most one is pushed.
C1_EqualConfigIsNoOp ==
  [][ /\ (/\ Len(runs') = Len(runs) + 1
          /\ isEqual(runs'[Len(runs')].prev.val, runs'[Len(runs')].cfg.val))
         => /\ setCalls' = setCalls
            /\ configRef' = runs'[Len(runs')].prev
      /\ (/\ Len(runs') = 2
          /\ isEqual(runs'[1].cfg.val, runs'[2].cfg.val))
         => Len(setCalls') <= 1 ]_vars

\* the effect has run with a new config object that is structurally equal to
\* the stored one, which has other key order: nothing was pushed
C1_Witness ==
  /\ Len(runs) >= 2
  /\ LastRun.node # NoNode
  /\ LastRun.cfg.id # LastRun.prev.id
  /\ LastRun.cfg.val # LastRun.prev.val
  /\ isEqual(LastRun.cfg.val, LastRun.prev.val)
  /\ configRef = LastRun.prev
  /\ setCalls = <<>>

\* C2 as stated: two structurally different configs applied in sequence to a
\* mounted widget give two calls of setOptions, with c1 and then with c2.
C2_TwoCallsAsStated ==
  (/\ Len(runs) = 2
   /\ ~isEqual(runs[1].cfg.val, runs[2].cfg.val)
   /\ runs[1].node # NoNode
   /\ runs[2].node # NoNode)
  => setCalls = << [node |-> runs[1].node, cfg |-> runs[1].cfg],
                   [node |-> runs[2].node, cfg |-> runs[2].cfg] >>

\* C2 amended: two structurally different configs applied in sequence to a
\* mounted widget give one call of setOptions, with c2; c1, the first config
\* the updater sees, initialises the stored configuration and is not pushed.
C2_OneCallWithSecond ==
  (/\ Len(runs) = 2
   /\ ~isEqual(runs[1].cfg.val, runs[2].cfg.val)
   /\ runs[1].node # NoNode
   /\ runs[2].node # NoNode)
  => /\ setCalls = << [node |-> runs[2].node, cfg |-> runs[2].cfg] >>
     /\ configRef = runs[2].cfg

\* two structurally different configs have been applied to a mounted widget
C2_Witness ==
  /\ Len(runs) = 2
  /\ ~isEqual(runs[1].cfg.val, runs[2].cfg.val)
  /\ runs[1].node # NoNode
  /\ runs[2].node # NoNode
  /\ Len(setCalls) = 1

\* C10: a run of the layout effect while ref.current is null calls no
\* setOptions and raises no error, whether or not the config has changed.
C10_AbsentHandleIsSilent ==
  [][ (/\ Len(runs') = Len(runs) + 1
       /\ runs'[Len(runs')].node = NoNode)
      => /\ setCalls' = setCalls
         /\ thrown' = thrown ]_vars

\* the effect has run with a changed config while ref.current was null
C10_Witness ==
  /\ runs # <<>>
  /\ LastRun.node = NoNode
  /\ ~isEqual(LastRun.cfg.val, LastRun.prev.val)
  /\ thrown = <<>>

----------------------------------------------------------------------------
(* SpecBridge: useEventRegistration over the life of one component instance *)

\* node.addEventListener(key, fn): a listener already in the list, with the
\* same event name and the same function, is not added again
addEventListener(list, key, fn) ==
  IF \E i \in DOMAIN list : list[i].key = key /\ list[i].fn = fn
  THEN list
  ELSE Append(list, [key |-> key, fn |-> fn])

\* removeEventListener given a function that is not the one registered
removeEventListener_OtherFunction(list, key, fn) == list

\* node.removeEventListener(key, fn)
removeEventListener(list, key, fn) ==
  LET Other(l) == ~(l.key = key /\ l.fn = fn)
  IN  SelectSeq(list, Other)

\* fns.forEach(({ key, fn }) => node.addEventListener(key, fn))
RECURSIVE AttachAll(_, _, _)
AttachAll(list, fns, i) ==
  IF i > Len(fns) THEN list
  ELSE AttachAll(addEventListener(list, fns[i].key, fns[i].fn), fns, i + 1)

\* a cleanup that removes the first listener only
DetachAll_FirstOnly(list, fns, i) ==
  IF fns = <<>> THEN list
  ELSE removeEventListener(list, fns[1].key, fns[1].fn)

\* fns.forEach(({ key, fn }) => node.removeEventListener(key, fn))
RECURSIVE DetachAll(_, _, _)
DetachAll(list, fns, i) ==
  IF i > Len(fns) THEN list
  ELSE DetachAll(removeEventListener(list, fns[i].key, fns[i].fn), fns, i + 1)

\* an effect that returns no cleanup
CleanupRun_Nothing(c, ls) == ls

\* a cleanup that reads ref.current when it runs
CleanupTarget_RefCurrent(c) == bRef

\* the node the cleanup c removes listeners from: the node its run of the
\* effect captured (const node = ref.current), which is not null
CleanupTarget(c) == c.node

\* the error running the cleanup c raises, or "none": removeEventListener
\* raises none, whether or not the listener is registered and whether or not
\* the node is in the document; a call on null raises a TypeError
CleanupError(c) ==
  IF c.node # NoNode /\ CleanupTarget(c) = NoNode THEN "TypeError" ELSE "none"

\* the cleanup c the effect returned, run on the listener lists ls: it
\* removes the fns of its run from the node of its run
CleanupRun(c, ls) ==
  IF c.node = NoNode \/ CleanupTarget(c) = NoNode THEN ls
  ELSE [ls EXCEPT ![CleanupTarget(c)] = DetachAll(@, c.fns, 1)]

\* the errors so far and the error of one more run of the cleanup c
Raised(errs, c) ==
  IF CleanupError(c) = "none" THEN errs ELSE Append(errs, CleanupError(c))

\* the body of the effect with node = ref.current. The effect runs once for
\* a props object, whose id names the run.
EffectRun(node, p, run, ls) ==
  IF node = NoNode
  THEN [listeners |-> ls, cleanup |-> NoCleanup]
  ELSE LET fns == BuildFns(p, run)
       IN  [listeners |-> [ls EXCEPT ![node] = AttachAll(@, fns, 1)],
            cleanup |-> [node |-> node, fns |-> fns]]

\* a forwarding listener that passes no arguments on
Invoke_NoArgs(fn, arg) ==
  [prop |-> fn.prop, run |-> fn.run, fn |-> Callback(fn), args |-> "undefined"]

\* the forwarding listener fn called with the event: props[key](...args)
Invoke(fn, arg) ==
  [prop |-> fn.prop, run |-> fn.run, fn |-> Callback(fn), args |-> arg]

\* the dispatch of an event of the given type on a node with listener list
\* `list`: its listeners for the type are called in the order of registration
Dispatch(list, type, arg) ==
  LET OfType(l) == l.key = type
      hit == SelectSeq(list, OfType)
  IN  [i \in DOMAIN hit |-> Invoke(hit[i].fn, arg)]

\* the property bags the component is rendered with
BridgeBags ==
  { <<>>,
    <<Entry("onCommit", Fn("fn"))>>,
    <<Entry("onCommit", Fn("fn2"))>>,
    <<Entry("onChange", Fn("fn")), Entry("onInput", Fn("fn"))>>,
    <<Entry("onCommit", Undefined), Entry("className", Str("foo")),
      Entry("onInput", Fn("fn2"))>> }

EventTypes == {"change", "input"}

EventArgs == {"e1", "e2"}

LastTwo(s) == IF Len(s) > 2 THEN Tail(s) ELSE s

InitBridge ==
  /\ BIdle
  /\ CIdle
  /\ UIdle
  /\ DIdle
  /\ AIdle

\* the first render and its commit: the ref is attached and the effect is
\* scheduled
BMount(b, node) ==
  /\ bPhase = "init"
  /\ bPhase' = "mounted"
  /\ bRenders' = 1
  /\ props' = [id |-> 1, bag |-> b]
  /\ bRef' = node
  /\ pending' = "effect"
  /\ UNCHANGED <<listeners, cleanup, calls, lastEvent, fired, bridgeRuns, bThrown,
                 lastCleanup, cVars, uVars, dVars, aVars>>

\* a later render with a new props object, and its commit: the dependency
\* props has changed, the effect is scheduled again. React runs the effects
\* of a render before it renders again.
BRenderNewProps(b, node) ==
  /\ bPhase = "mounted"
  /\ pending = "none"
  /\ bRenders < MaxRenders
  /\ bRenders' = bRenders + 1
  /\ props' = [id |-> bRenders + 1, bag |-> b]
  /\ bRef' = node
  /\ pending' = "effect"
  /\ UNCHANGED <<bPhase, listeners, cleanup, calls, lastEvent, fired, bridgeRuns,
                 bThrown, lastCleanup, cVars, uVars, dVars, aVars>>

\* a later render with the same props object (a render the component's own
\* state causes): no dependency has changed, the effect does not run
BRenderSameProps(node) ==
  /\ bPhase = "mounted"
  /\ pending = "none"
  /\ bRenders < MaxRenders
  /\ bRenders' = bRenders + 1
  /\ bRef' = node
  /\ UNCHANGED <<bPhase, props, pending, listeners, cleanup, calls, lastEvent, fired,
                 bridgeRuns, bThrown, lastCleanup, cVars, uVars, dVars, aVars>>

\* React runs the scheduled effect: the cleanup of the previous run, then
\* the body of the effect
BFlushEffect ==
  /\ pending = "effect"
  /\ LET r == EffectRun(bRef, props, props.id, CleanupRun(cleanup, listeners))
     IN  /\ listeners' = r.listeners
         /\ cleanup' = r.cleanup
  /\ bridgeRuns' = LastTwo(Append(bridgeRuns, [props |-> props, node |-> bRef]))
  /\ bThrown' = Raised(bThrown, cleanup)
  /\ pending' = "none"
  /\ UNCHANGED <<bPhase, props, bRef, calls, lastEvent, fired, bRenders, lastCleanup,
                 cVars, uVars, dVars, aVars>>

\* the unmount: the ref is detached and the cleanup of the last run is
\* scheduled
BUnmount ==
  /\ bPhase = "mounted"
  /\ pending = "none"
  /\ bPhase' = "gone"
  /\ bRef' = NoNode
  /\ pending' = "unmount"
  /\ UNCHANGED <<props, listeners, cleanup, calls, lastEvent, fired, bRenders,
                 bridgeRuns, bThrown, lastCleanup, cVars, uVars, dVars, aVars>>

\* React runs the cleanup of the last run for the unmount
BFlushUnmount ==
  /\ pending = "unmount"
  /\ listeners' = CleanupRun(cleanup, listeners)
  /\ bThrown' = Raised(bThrown, cleanup)
  /\ lastCleanup' = IF cleanup = NoCleanup THEN lastCleanup
                    ELSE [c |-> cleanup, times |-> 1]
  /\ cleanup' = NoCleanup
  /\ pending' = "none"
  /\ UNCHANGED <<bPhase, props, bRef, calls, lastEvent, fired, bRenders, bridgeRuns,
                 cVars, uVars, dVars, aVars>>

\* the cleanup that ran for the unmount runs once more, the node long out of
\* the document
BCleanupAgain ==
  /\ bPhase = "gone"
  /\ pending = "none"
  /\ lastCleanup.times = 1
  /\ listeners' = CleanupRun(lastCleanup.c, listeners)
  /\ bThrown' = Raised(bThrown, lastCleanup.c)
  /\ lastCleanup' = [lastCleanup EXCEPT !.times = 2]
  /\ UNCHANGED <<bPhase, props, bRef, cleanup, pending, calls, lastEvent, fired,
                 bRenders, bridgeRuns, cVars, uVars, dVars, aVars>>

\* a native event of some type is dispatched on a node, the current one or a
\* former one, attached or not; the nodes exist from the mount on
FireEvent(node, type, arg) ==
  /\ bPhase # "init"
  /\ fired < MaxEvents
  /\ fired' = fired + 1
  /\ calls' = Dispatch(listeners[node], type, arg)
  /\ lastEvent' = [node |-> node, type |-> type, arg |-> arg, phase |-> bPhase]
  /\ UNCHANGED <<bPhase, props, bRef, listeners, cleanup, pending, bRenders,
                 bridgeRuns, bThrown, lastCleanup, cVars, uVars, dVars, aVars>>

NextBridge ==
  \/ \E b \in BridgeBags, node \in Handles : BMount(b, node)
  \/ \E b \in BridgeBags, node \in Handles : BRenderNewProps(b, node)
  \/ \E node \in Handles : BRenderSameProps(node)
  \/ BFlushEffect
  \/ BUnmount
  \/ BFlushUnmount
  \/ BCleanupAgain
  \/ \E node \in Nodes, type \in EventTypes, arg \in EventArgs :
       FireEvent(node, type, arg)

SpecBridge == InitBridge /\ [][NextBridge]_vars

----------------------------------------------------------------------------
(* Claims about the event bridge (SpecBridge) *)

\* the step is the dispatch of a native event
EventStep == fired' = fired + 1

\* the component is mounted, the latest render brought a new property bag and
\* the effect of that render has run
BridgeSettled ==
  /\ bPhase = "mounted"
  /\ pending = "none"
  /\ props.id = bRenders

\* the handler props of bag b that are functions and map to the event type
HandlersFor(b, type) ==
  {i \in DOMAIN b : IsHandlerEntry(b[i]) /\ FUNCTION_MAPPING[Renamed(b[i].k)] = type}

\* the invocations, among cs, of the callback of prop k
CallsOf(cs, k) == {j \in DOMAIN cs : cs[j].prop = k}

\* C3: while the component is mounted, after any renders with new property
\* bags, a native event dispatched on the widget node invokes the callback of
\* each function-valued handler prop mapped to the event's name exactly once,
\* with the event's argument, and invokes nothing else.
C3_CallbackOncePerEvent ==
  [][ (/\ EventStep
       /\ BridgeSettled
       /\ bRef # NoNode
       /\ lastEvent'.node = bRef)
      => /\ \A i \in HandlersFor(props.bag, lastEvent'.type) :
              /\ Cardinality(CallsOf(calls', props.bag[i].k)) = 1
              /\ \A j \in CallsOf(calls', props.bag[i].k) :
                   /\ calls'[j].fn = props.bag[i].v
                   /\ calls'[j].args = lastEvent'.arg
         /\ Len(calls') = Cardinality(HandlersFor(props.bag, lastEvent'.type)) ]_vars

\* after a re-render with a new property bag, an event on the widget node has
\* invoked a callback
C3_Witness ==
  /\ bPhase = "mounted"
  /\ pending = "none"
  /\ bRenders >= 2
  /\ props.id = bRenders
  /\ lastEvent.node = bRef
  /\ lastEvent.phase = "mounted"
  /\ Len(bridgeRuns) = 2
  /\ Len(calls) = 2
  /\ \A j \in DOMAIN calls : calls[j].run = props.id

\* the handler props whose callback the latest run of the effect replaced by
\* another function
Swapped ==
  IF Len(bridgeRuns) < 2 THEN {}
  ELSE {k \in Keys(bridgeRuns[2].props.bag) \cap Keys(bridgeRuns[1].props.bag) :
          /\ Renamed(k) \in FUNCTION_PROPS
          /\ Get(bridgeRuns[1].props.bag, k).t = "function"
          /\ Get(bridgeRuns[2].props.bag, k).t = "function"
          /\ Get(bridgeRuns[1].props.bag, k) # Get(bridgeRuns[2].props.bag, k)}

\* C4: once the effect has run again for a property bag in which a callback
\* is replaced by another function under the same handler name, an event of
\* the mapped name on the widget node invokes the new function for that
\* prop, and no event on any node invokes the old one for it: only listeners
\* of the latest run are invoked.
C4_OnlyNewCallback ==
  [][ (/\ EventStep
       /\ bPhase = "mounted"
       /\ pending = "none")
      => /\ \A j \in DOMAIN calls' : calls'[j].run = props.id
         /\ \A k \in Swapped :
              /\ \A j \in CallsOf(calls', k) :
                   /\ calls'[j].fn = Get(props.bag, k)
                   /\ calls'[j].fn # Get(bridgeRuns[1].props.bag, k)
              /\ (/\ bRef # NoNode
                  /\ bridgeRuns[2].node = bRef
                  /\ lastEvent'.node = bRef
                  /\ lastEvent'.type = FUNCTION_MAPPING[Renamed(k)])
                 => CallsOf(calls', k) # {} ]_vars

\* a callback was replaced on the same node and an event of its name, fired
\* after the effect ran again, invoked the new function
C4_Witness ==
  /\ bPhase = "mounted"
  /\ pending = "none"
  /\ Len(bridgeRuns) = 2
  /\ bridgeRuns[1].node = bridgeRuns[2].node
  /\ bridgeRuns[2].node = lastEvent.node
  /\ \E k \in Swapped :
       /\ lastEvent.type = FUNCTION_MAPPING[Renamed(k)]
       /\ \E j \in DOMAIN calls :
            /\ calls[j].prop = k
            /\ calls[j].run = bridgeRuns[2].props.id
            /\ calls[j].fn = Get(bridgeRuns[2].props.bag, k)

\* C5: once the component is unmounted and the cleanup has run, no node holds
\* a listener of the bridge and an event on any node invokes no callback.
C5_NoCallbackAfterUnmount ==
  [][ (/\ bPhase' = "gone"
       /\ pending' = "none")
      => /\ \A n \in Nodes : listeners'[n] = <<>>
         /\ EventStep => calls' = <<>> ]_vars

\* after the unmount, an event of a handler's name was dispatched on the node
\* the bridge had attached that handler's listener to
C5_Witness ==
  /\ bPhase = "gone"
  /\ pending = "none"
  /\ lastEvent.phase = "gone"
  /\ bridgeRuns # <<>>
  /\ bridgeRuns[Len(bridgeRuns)].node = lastEvent.node
  /\ HandlersFor(bridgeRuns[Len(bridgeRuns)].props.bag, lastEvent.type) # {}
  /\ calls = <<>>

----------------------------------------------------------------------------
(* More claims about the event bridge (SpecBridge) *)

\* no listener the cleanup c is to remove is on the node of c, in lists ls
Removed(c, ls) ==
  \A i \in DOMAIN c.fns :
    \A j \in DOMAIN ls[c.node] : ls[c.node][j].fn # c.fns[i].fn

\* C16: a run of the cleanup raises no error and leaves none of its listeners
\* on its node, also when the node is out of the document (the unmount) and
\* when the cleanup has run before; after the unmount the node holds no
\* listener of the bridge.
C16_CleanupIdempotent ==
  [][ /\ bThrown' = bThrown
      /\ (pending = "effect" /\ pending' = "none" /\ cleanup # NoCleanup)
         => Removed(cleanup, CleanupRun(cleanup, listeners))
      /\ (pending = "unmount" /\ pending' = "none" /\ cleanup # NoCleanup)
         => /\ Removed(cleanup, listeners')
            /\ listeners'[cleanup.node] = <<>>
      /\ (lastCleanup.times = 1 /\ lastCleanup'.times = 2)
         => /\ Removed(lastCleanup.c, listeners')
            /\ listeners'[lastCleanup.c.node] = <<>>
            /\ listeners' = listeners ]_vars

\* the cleanup of a run that attached listeners has run for the unmount and
\* then a second time
C16_Witness ==
  /\ bPhase = "gone"
  /\ lastCleanup.times = 2
  /\ lastCleanup.c.fns # <<>>
  /\ listeners[lastCleanup.c.node] = <<>>
  /\ bThrown = <<>>

\* C18: in every state the listeners on the nodes are exactly the fns of the
\* latest run of the effect, on the node of that run; no other node, current
\* or former, holds a listener.
C18_OnlyLatestRunListeners ==
  \A n \in Nodes :
    listeners[n] = IF cleanup.node = n THEN cleanup.fns ELSE <<>>

\* the effect has run again for another node: the listeners of the earlier
\* run are off the former node, those of the latest run are on the new one
C18_Witness ==
  /\ bPhase = "mounted"
  /\ pending = "none"
  /\ Len(bridgeRuns) = 2
  /\ bridgeRuns[1].node # NoNode
  /\ bridgeRuns[2].node # NoNode
  /\ bridgeRuns[1].node # bridgeRuns[2].node
  /\ BuildFns(bridgeRuns[1].props, bridgeRuns[1].props.id) # <<>>
  /\ listeners[bridgeRuns[1].node] = <<>>
  /\ Len(listeners[bridgeRuns[2].node]) = 2

----------------------------------------------------------------------------
(* More claims about the option updater (SpecOptions) *)

\* C19: the stored configuration is structurally equal to the first config
\* seen while setOptions has not been called, and to the argument of the
\* latest call of setOptions afterwards: no config is stored that was not
\* pushed into the widget.
C19_StoredWasPushed ==
  uPhase # "init" =>
    IF setCalls = <<>>
    THEN isEqual(configRef.val, runs[1].cfg.val)
    ELSE isEqual(configRef.val, setCalls[Len(setCalls)].cfg.val)

----------------------------------------------------------------------------
(* SpecDispatch: the dispatch function of useEventDispatchRef *)

\* What Object.getOwnPropertyDescriptor(_, 'value') gives for the element
\* (own) and for its prototype (proto): "none" is no descriptor, "undefined"
\* a descriptor without a setter, any other name the setter function.
\* React's value tracking gives an input it renders an own setter; an
\* untouched input has no own descriptor.
Elements ==
  [own : {"none", "undefined", "instanceSet", "protoSet"},
   proto : {"none", "undefined", "protoSet"}]

DispatchTypes == {"change", "input"}

Details == [value : {"1", "x+1"}, extra : {"", "caret"}]

TypeError == [ops |-> <<>>, error |-> "TypeError"]

\* the choice the claim describes: the own setter when it is distinct
ChooseSetter_OwnWhenDistinct(vs, ps) ==
  IF vs # "undefined" /\ vs # ps THEN vs ELSE ps

\* the setter that is called, given valueSetter vs and prototypeValueSetter ps:
\* if (valueSetter && valueSetter !== prototypeValueSetter) the prototype's,
\* else valueSetter
ChooseSetter(vs, ps) ==
  IF vs # "undefined" /\ vs # ps THEN ps ELSE vs

\* setter.call(handler, detail.value)
SetValue(setter, value) ==
  [op |-> "set", setter |-> setter, value |-> value]

\* new CustomEvent(type, { detail })
EventInit_Defaults(type, detail) ==
  [op |-> "event", type |-> type, bubbles |-> FALSE, cancelable |-> FALSE,
   detail |-> detail]

\* handler.dispatchEvent(new CustomEvent(type, { bubbles: true, cancelable: true, detail }))
EventInit(type, detail) ==
  [op |-> "event", type |-> type, bubbles |-> TRUE, cancelable |-> TRUE,
   detail |-> detail]

\* dispatchEvent without the test of ref.current
DispatchEvent_NoBoundCheck(handler, type, detail) ==
  IF handler = NoElement \/ handler.own = "none" \/ handler.proto = "none"
  THEN TypeError
  ELSE LET setter == ChooseSetter(handler.own, handler.proto)
       IN  IF setter = "undefined"
           THEN TypeError
           ELSE [ops |-> <<SetValue(setter, detail.value), EventInit(type, detail)>>,
                 error |-> "none"]

\* dispatchEvent with optional chaining on the descriptors and the setter
DispatchEvent_OptionalChain(handler, type, detail) ==
  IF handler = NoElement
  THEN [ops |-> <<>>, error |-> "none"]
  ELSE LET vs == IF handler.own = "none" THEN "undefined" ELSE handler.own
           ps == IF handler.proto = "none" THEN "undefined" ELSE handler.proto
           setter == ChooseSetter(vs, ps)
       IN  IF setter = "undefined"
           THEN [ops |-> <<EventInit(type, detail)>>, error |-> "none"]
           ELSE [ops |-> <<SetValue(setter, detail.value), EventInit(type, detail)>>,
                 error |-> "none"]

\* the dispatch function: what it does to the element handler = ref.current,
\* in order, and the error it raises. Reading .set of a descriptor that does
\* not exist and calling a setter that is undefined raise a TypeError.
DispatchEvent(handler, type, detail) ==
  IF handler = NoElement
  THEN [ops |-> <<>>, error |-> "none"]
  ELSE IF handler.own = "none" \/ handler.proto = "none"
  THEN TypeError
  ELSE LET setter == ChooseSetter(handler.own, handler.proto)
       IN  IF setter = "undefined"
           THEN TypeError
           ELSE [ops |-> <<SetValue(setter, detail.value), EventInit(type, detail)>>,
                 error |-> "none"]

InitDispatch ==
  /\ DIdle
  /\ CIdle
  /\ UIdle
  /\ BIdle
  /\ AIdle

\* the ref is bound to an input element
DBind(el) ==
  /\ dRef = NoElement
  /\ dRef' = el
  /\ UNCHANGED <<dOps, dError, dLast, dCount, cVars, uVars, bVars, aVars>>

\* the ref is set back to null
DUnbind ==
  /\ dRef # NoElement
  /\ dRef' = NoElement
  /\ UNCHANGED <<dOps, dError, dLast, dCount, cVars, uVars, bVars, aVars>>

\* a call dispatchEvent(type, detail)
DDispatch(type, detail) ==
  /\ dCount < MaxDispatch
  /\ dCount' = dCount + 1
  /\ dLast' = [type |-> type, detail |-> detail, el |-> dRef]
  /\ dOps' = DispatchEvent(dRef, type, detail).ops
  /\ dError' = DispatchEvent(dRef, type, detail).error
  /\ UNCHANGED <<dRef, cVars, uVars, bVars, aVars>>

NextDispatch ==
  \/ \E el \in Elements : DBind(el)
  \/ DUnbind
  \/ \E type \in DispatchTypes, detail \in Details : DDispatch(type, detail)

SpecDispatch == InitDispatch /\ [][NextDispatch]_vars

----------------------------------------------------------------------------
(* Claims about the synthetic-input dispatcher (SpecDispatch) *)

Setters == {"instanceSet", "protoSet"}

\* the last call of dispatchEvent found the ref bound
DispatchedBound == dCount > 0 /\ dLast.el # NoElement

\* the setters the last call of dispatchEvent called
SettersCalled == {dOps[i].setter : i \in {j \in DOMAIN dOps : dOps[j].op = "set"}}

\* C11 as stated: the setter called is the element's own one when there is an
\* own descriptor whose setter is distinct from the prototype's, and the
\* prototype's in every other case.
C11_OwnSetterAsStated ==
  DispatchedBound =>
    SettersCalled =
      IF dLast.el.own \in Setters /\ dLast.el.own # dLast.el.proto
      THEN {dLast.el.own}
      ELSE {dLast.el.proto}

\* C11 amended: when the element's own value descriptor and its prototype's
\* both have a setter, the setter called is the prototype's, also when the
\* own setter is distinct from it (the instance-level setter is never
\* called); in every other case the call raises a TypeError and calls no
\* setter.
C11_PrototypeSetter ==
  DispatchedBound =>
    IF dLast.el.own \in Setters /\ dLast.el.proto \in Setters
    THEN /\ SettersCalled = {dLast.el.proto}
         /\ dError = "none"
    ELSE /\ SettersCalled = {}
         /\ dError = "TypeError"

\* a dispatch to an element with an own setter distinct from the prototype's
\* has called the prototype's
C11_Witness ==
  /\ DispatchedBound
  /\ dLast.el.own = "instanceSet"
  /\ dLast.el.proto = "protoSet"
  /\ SettersCalled = {"protoSet"}

\* C12: a dispatch that succeeds calls one setter with detail.value and then
\* dispatches one custom event of the given type, bubbling and cancelable,
\* with the detail; nothing else, and never the event first.
C12_SetThenEvent ==
  (DispatchedBound /\ dError = "none") =>
    /\ Len(dOps) = 2
    /\ dOps[1].op = "set"
    /\ dOps[1].value = dLast.detail.value
    /\ dOps[2] = [op |-> "event", type |-> dLast.type, bubbles |-> TRUE,
                  cancelable |-> TRUE, detail |-> dLast.detail]

\* a dispatch with a detail of two fields has succeeded
C12_Witness ==
  /\ DispatchedBound
  /\ dError = "none"
  /\ dLast.detail.extra # ""
  /\ Len(dOps) = 2

\* C13: a dispatch while the ref is not bound does nothing and raises nothing.
C13_UnboundIsNoOp ==
  (dCount > 0 /\ dLast.el = NoElement) =>
    /\ dOps = <<>>
    /\ dError = "none"

\* dispatchEvent has been called while the ref was not bound
C13_Witness ==
  /\ dCount > 0
  /\ dLast.el = NoElement
  /\ dLast.type = "change"

\* C14: a dispatch to a bound element that has no value setter, on the
\* element or on its prototype, raises a TypeError, calls no setter and
\* dispatches no event.
C14_MissingSetterThrows ==
  (/\ DispatchedBound
   /\ \/ dLast.el.own \notin Setters
      \/ dLast.el.proto \notin Setters)
  => /\ dError = "TypeError"
     /\ dOps = <<>>

\* a dispatch to an element without an own value descriptor has failed
C14_Witness ==
  /\ DispatchedBound
  /\ dLast.el.own = "none"
  /\ dLast.el.proto = "protoSet"
  /\ dError = "TypeError"

----------------------------------------------------------------------------
(* SpecChild: useAddChild in two component instances; SpecChildEnv adds
   other code that removes a container from the body *)

TagNames == {"div", "span"}

\* document.createElement(tagName): a node no earlier call has returned
createElement(tagName) == [id |-> created + 1, tag |-> tagName]

\* useMemo that runs its factory in every render
useMemo_NoCache(cell, fresh) == fresh

\* useMemo(factory, []): the factory's value of the first render is kept
useMemo(cell, fresh) == IF cell = NoChild THEN fresh ELSE cell

IsChild(children, node) == \E k \in DOMAIN children : children[k] = node

Without(children, node) == SelectSeq(children, LAMBDA c : c # node)

\* document.body.appendChild(node): a node that is already a child is moved
appendChild(children, node) == Append(Without(children, node), node)

\* document.body.removeChild(node), for a child
removeChild(children, node) == Without(children, node)

\* document.body.removeChild(node) raises NotFoundError for a node that is
\* not a child of the body
removeChildError(children, node) ==
  IF IsChild(children, node) THEN "none" ELSE "NotFoundError"

ThrownBy(errs, children, node) ==
  IF removeChildError(children, node) = "none"
  THEN errs
  ELSE Append(errs, removeChildError(children, node))

InitChild ==
  /\ AIdle
  /\ CIdle
  /\ UIdle
  /\ BIdle
  /\ DIdle

\* first render of instance i and its commit: the layout effect runs
AMount(i, tagName) ==
  /\ aPhase[i] = "init"
  /\ LET node == useMemo(container[i], createElement(tagName))
     IN  /\ container' = [container EXCEPT ![i] = node]
         /\ returned' = [returned EXCEPT ![i] = node]
         /\ body' = appendChild(body, node)
  /\ created' = created + 1
  /\ aPhase' = [aPhase EXCEPT ![i] = "mounted"]
  /\ aRenders' = [aRenders EXCEPT ![i] = 1]
  /\ UNCHANGED <<aThrown, cVars, uVars, bVars, dVars>>

\* a later render of instance i, with any tagName; the layout effect runs
\* again only if container, its dependency, changed
ARender(i, tagName) ==
  /\ aPhase[i] = "mounted"
  /\ aRenders[i] < MaxRenders
  /\ LET node == useMemo(container[i], createElement(tagName))
     IN  /\ container' = [container EXCEPT ![i] = node]
         /\ returned' = [returned EXCEPT ![i] = node]
         /\ IF node = container[i]
            THEN UNCHANGED <<body, created, aThrown>>
            ELSE /\ body' = appendChild(removeChild(body, container[i]), node)
                 /\ created' = created + 1
                 /\ aThrown' = ThrownBy(aThrown, body, container[i])
  /\ aRenders' = [aRenders EXCEPT ![i] = @ + 1]
  /\ UNCHANGED <<aPhase, cVars, uVars, bVars, dVars>>

\* instance i unmounts: the cleanup of the layout effect runs
AUnmount(i) ==
  /\ aPhase[i] = "mounted"
  /\ body' = removeChild(body, container[i])
  /\ aThrown' = ThrownBy(aThrown, body, container[i])
  /\ aPhase' = [aPhase EXCEPT ![i] = "gone"]
  /\ UNCHANGED <<container, returned, aRenders, created, cVars, uVars, bVars, dVars>>

\* other code takes the container of mounted instance i out of the body
\* (container.remove(), or the body's children are replaced)
AExternalRemove(i) ==
  /\ aPhase[i] = "mounted"
  /\ IsChild(body, container[i])
  /\ body' = Without(body, container[i])
  /\ UNCHANGED <<aPhase, container, returned, aRenders, created, aThrown,
                 cVars, uVars, bVars, dVars>>

NextChild ==
  \/ \E i \in Instances, tagName \in TagNames : AMount(i, tagName)
  \/ \E i \in Instances, tagName \in TagNames : ARender(i, tagName)
  \/ \E i \in Instances : AUnmount(i)

SpecChild == InitChild /\ [][NextChild]_vars

NextChildEnv ==
  \/ NextChild
  \/ \E i \in Instances : AExternalRemove(i)

SpecChildEnv == InitChild /\ [][NextChildEnv]_vars

----------------------------------------------------------------------------
(* Claims about the detached-node manager (SpecChild, SpecChildEnv) *)

Occurrences(children, node) ==
  Cardinality({k \in DOMAIN children : children[k] = node})

Rendered == {i \in Instances : aPhase[i] # "init"}

\* one node per instance, returned by the latest render, and a child of the
\* body, once, exactly while the instance is mounted
OneNodeAttachedWhileMounted ==
  /\ created = Cardinality(Rendered)
  /\ \A i \in Rendered :
       /\ container[i] # NoChild
       /\ returned[i] = container[i]
       /\ \A j \in Rendered : i # j => container[i] # container[j]
  /\ \A i \in Instances :
       Occurrences(body, container[i]) = IF aPhase[i] = "mounted" THEN 1 ELSE 0

\* a render of an instance that has rendered returns the node of the
\* render before
SameNodeReturned ==
  \A i \in Rendered : returned'[i] = returned[i]

\* C15: each instance creates one node, every render of the instance returns
\* that node, and the node is a child of the body, once, exactly while the
\* instance is mounted (components only; nothing else touches the node).
C15_OneStableNode ==
  []OneNodeAttachedWhileMounted /\ [][SameNodeReturned]_vars

\* instance a has been rendered MaxRenders times and is mounted, instance b
\* has unmounted: the body holds a's node alone
C15_Witness ==
  /\ aPhase["a"] = "mounted"
  /\ aRenders["a"] = MaxRenders
  /\ aPhase["b"] = "gone"
  /\ body = <<container["a"]>>

\* C17 as stated: no teardown raises, also when the node was taken out of the
\* body by other code while the instance was mounted.
C17_TeardownNeverThrows == aThrown = <<>>

====
